---- MODULE Spec2Model ----
\* A model of app.py: a chat application whose state is three CSV files
\* (registered_users.csv, groups.csv, chat_log.csv) shared by all browser
\* sessions.  Every session runs the script main() from top to bottom on each
\* user interaction; every function of the script reads a whole file into a
\* DataFrame and writes a whole file back.
EXTENDS Integers, Sequences, FiniteSets, TLC

\* ------------------------------------------------------------------ bounds
\* The messages sent and the groups created in the specification Spec.
MaxMsgs == 1
MaxGroups == 1
\* The rows of a legacy chat log in the specification SpecReg.
MaxLegacy == 2
\* The messages sent in the specification SpecConc and the groups created in
\* the specification SpecWide.
WideMsgs == 2
WideGroups == 2
\* The seconds that pass.
MaxClock == 1
\* The messages sent and groups created, together, in the specification
\* SpecValid.
MaxValid == 1

Sessions == {"s1", "s2"}
Emails == {"a@x.io", "b@x.io", "c@x.io"}
GroupNames == {"team", "ops"}
Texts == {"hi"}

\* The person at each browser, who logs in with their own email.  The third
\* person of Emails has registered earlier and has no browser open.
Who == [s \in Sessions |-> IF s = "s1" THEN "a@x.io" ELSE "b@x.io"]

\* The author of the rows of a chat log written by the version of the
\* application that had no recipient column, and the other user of that time.
LegacyUser == "a@x.io"
OtherLegacyUser == "c@x.io"

\* ------------------------------------------------------------ cell values
\* The default recipient of save_message and the value load_messages fills in.
EVERYONE == "everyone"
\* What pandas holds for a cell that is empty in the CSV file: concat() fills
\* the cells of a column a frame does not have with NaN, to_csv() writes NaN as
\* an empty cell and read_csv() reads an empty cell as NaN.
NaN == "nan"
\* The recipient of a row of a DataFrame that has no recipient column.
NoColumn == "<no column>"

\* ------------------------------------------------------- is_valid_email
\* What the user types is a sequence of characters.
Letters ==
    {"a", "b", "c", "d", "e", "f", "g", "h", "i", "j", "k", "l", "m",
     "n", "o", "p", "q", "r", "s", "t", "u", "v", "w", "x", "y", "z",
     "A", "B", "C", "D", "E", "F", "G", "H", "I", "J", "K", "L", "M",
     "N", "O", "P", "Q", "R", "S", "T", "U", "V", "W", "X", "Y", "Z"}
Digits == {"0", "1", "2", "3", "4", "5", "6", "7", "8", "9"}

\* is_valid_email that accepts every text.
is_valid_email_any(email) == TRUE

\* Lines 35-36: re.match of ^[a-zA-Z0-9._%+-]+@[a-zA-Z0-9.-]+\.[a-zA-Z]{2,}$
\* on a text without line break: at is the place of the @ and dot the place
\* of the dot before the last part.
is_valid_email(email) ==
    \E at \in 1..Len(email) : \E dot \in 1..Len(email) :
        /\ at > 1
        /\ \A k \in 1..(at - 1) :
              email[k] \in Letters \cup Digits \cup {".", "_", "%", "+", "-"}
        /\ email[at] = "@"
        /\ dot > at + 1
        /\ \A k \in (at + 1)..(dot - 1) :
              email[k] \in Letters \cup Digits \cup {".", "-"}
        /\ email[dot] = "."
        /\ Len(email) - dot >= 2
        /\ \A k \in (dot + 1)..Len(email) : email[k] \in Letters

RECURSIVE as_string(_)
\* The string of a sequence of characters.
as_string(chars) ==
    IF chars = <<>> THEN "" ELSE chars[1] \o as_string(Tail(chars))

\* hashlib.md5(...).hexdigest()[:8]: a function of its argument alone (two
\* equal arguments give equal digests); distinct arguments of the model are
\* given distinct digests.
md5(str) == "md5:" \o str

generate_user_id(email) == md5(email)

\* datetime.now().strftime("%Y%m%d%H%M%S") has a resolution of one second:
\* now is the clock in seconds.
generate_group_id(group_name, now) == md5(group_name \o "_" \o ToString(now))

\* ----------------------------------------------------- strings of members
\* The members cell of groups.csv is a string; it is modelled as a sequence of
\* tokens, an email being one token and "," the delimiter.  An email accepted
\* by is_valid_email holds no comma.
Comma == ","

RECURSIVE Join(_)
\* ','.join(members)
Join(members) ==
    IF Len(members) = 0 THEN <<>>
    ELSE IF Len(members) = 1 THEN <<members[1]>>
    ELSE <<members[1], Comma>> \o Join(Tail(members))

RECURSIVE SplitFrom(_, _, _)
SplitFrom(str, i, field) ==
    IF i > Len(str) THEN <<field>>
    ELSE IF str[i] = Comma THEN <<field>> \o SplitFrom(str, i + 1, <<>>)
    ELSE SplitFrom(str, i + 1, Append(field, str[i]))

\* str.split(','): the fields between the delimiters, each a string (a
\* sequence of tokens); the empty string splits into one empty field.
Split(str) == SplitFrom(str, 1, <<>>)

\* x in list
InList(x, list) == \E i \in 1..Len(list) : list[i] = x

\* ------------------------------------------------------------ the files
\* A file that os.path.exists() does not find.
NoFile == [exists |-> FALSE, readable |-> TRUE, has_recipient |-> TRUE,
           rows |-> <<>>]

\* A file that exists and that pd.read_csv() cannot parse, such as a file of
\* zero bytes (pandas.errors.EmptyDataError).
Unreadable == [exists |-> TRUE, readable |-> FALSE, has_recipient |-> TRUE,
               rows |-> <<>>]

\* pd.read_csv(FILE) raises an exception.
read_csv_raises(file) == file.exists /\ ~file.readable

\* df.to_csv(FILE, index=False) of a frame with these rows.
to_csv(has_recipient, rows) ==
    [exists |-> TRUE, readable |-> TRUE, has_recipient |-> has_recipient,
     rows |-> rows]

\* pd.read_csv(FILE): the frame (its columns and its rows).
read_csv(file) == [has_recipient |-> file.has_recipient, rows |-> file.rows]

\* ------------------------------------------------------- register_user
\* Lines 53-59: the frame register_user starts from.
register_user_df(file) == IF file.exists THEN file.rows ELSE <<>>

\* register_user with a check of line 56 that looks at the first row only.
register_user_exists_first_row(file, email) ==
    file.exists /\ Len(file.rows) > 0 /\ file.rows[1].email = email

\* register_user without the check of line 56.
register_user_exists_unchecked(file, email) == FALSE

\* Lines 53-57: email in users_df['email'].values, of an existing file.
register_user_exists(file, email) ==
    file.exists /\ \E i \in 1..Len(file.rows) : file.rows[i].email = email

\* Lines 62-67: the frame with the new user appended.
register_user_new(users_df, email, now) ==
    Append(users_df, [email |-> email,
                      user_id |-> generate_user_id(email),
                      first_login |-> now])

\* register_user run without interference: the file it leaves, what it
\* returns, and whether it wrote.
register_user(file, email, now) ==
    IF register_user_exists(file, email)
    THEN [file |-> file, user_id |-> generate_user_id(email),
          is_new |-> FALSE, wrote |-> FALSE]
    ELSE [file |-> to_csv(TRUE, register_user_new(register_user_df(file), email, now)),
          user_id |-> generate_user_id(email),
          is_new |-> TRUE, wrote |-> TRUE]

\* users_df[['email', 'user_id']].to_dict('records'), or [] without a file.
get_registered_users(file) ==
    IF file.exists
    THEN [i \in 1..Len(file.rows) |->
            [email |-> file.rows[i].email, user_id |-> file.rows[i].user_id]]
    ELSE <<>>

\* -------------------------------------------------------- create_group
\* create_group without the test of line 81.
create_group_members_appended(creator_email, members) ==
    Append(members, creator_email)

\* Lines 81-82: the creator is appended when absent.
create_group_members(creator_email, members) ==
    IF InList(creator_email, members) THEN members
    ELSE Append(members, creator_email)

\* Lines 85-88.
create_group_df(file) == IF file.exists THEN file.rows ELSE <<>>

\* Lines 78, 91-98: the frame with the new group appended.
create_group_new(groups_df, group_name, creator_email, members, now) ==
    Append(groups_df,
           [group_id |-> generate_group_id(group_name, now),
            group_name |-> group_name,
            creator |-> creator_email,
            members |-> Join(create_group_members(creator_email, members)),
            created_at |-> now])

\* create_group run without interference: the file it leaves.
create_group(file, group_name, creator_email, members, now) ==
    to_csv(TRUE, create_group_new(create_group_df(file), group_name,
                                  creator_email, members, now))

RECURSIVE user_groups_from(_, _, _)
\* Lines 115-123: the loop over groups_df.iterrows(), from row i on.
user_groups_from(rows, i, user_email) ==
    IF i > Len(rows) THEN <<>>
    ELSE LET members == Split(rows[i].members)
             rest == user_groups_from(rows, i + 1, user_email)
         IN  IF InList(<<user_email>>, members)
             THEN <<[group_id |-> rows[i].group_id,
                     group_name |-> rows[i].group_name,
                     creator |-> rows[i].creator,
                     members |-> members]>> \o rest
             ELSE rest

\* Lines 108-109 without a file; lines 126-128 when read_csv raises.
get_user_groups(file, user_email) ==
    IF ~file.exists THEN <<>>
    ELSE IF read_csv_raises(file) THEN <<>>
    ELSE user_groups_from(file.rows, 1, user_email)

\* ------------------------------------------------------ the messages log
\* delete_message with a test of line 135 that has no lower bound.
delete_message_ok_no_lower(file, message_index) ==
    file.exists /\ message_index < Len(file.rows)

\* Line 135: 0 <= message_index < len(df), of an existing file.
delete_message_ok(file, message_index) ==
    file.exists /\ 0 <= message_index /\ message_index < Len(file.rows)

\* Line 136: df.drop(df.index[message_index]); message_index counts from 0.
drop(rows, message_index) ==
    [j \in 1..(Len(rows) - 1) |->
        IF j <= message_index THEN rows[j] ELSE rows[j + 1]]

\* Lines 157-161: the file exists and its frame has no recipient column.
load_messages_migrates(file) ==
    file.exists /\ ~read_csv_raises(file) /\ ~file.has_recipient

\* load_messages without the assignment of line 162.
load_messages_df_unfilled(df) == df

\* Lines 161-162: df['recipient'] = 'everyone' when the column is missing.
load_messages_df(df) ==
    IF df.has_recipient THEN df
    ELSE [has_recipient |-> TRUE,
          rows |-> [i \in 1..Len(df.rows) |->
                      [df.rows[i] EXCEPT !.recipient = EVERYONE]]]

\* The file load_messages leaves when it runs without interference.
Migrate(file) ==
    IF load_messages_migrates(file)
    THEN to_csv(TRUE, load_messages_df(read_csv(file)).rows)
    ELSE file

\* What load_messages returns when it runs without interference: [] without
\* a file, and [] when read_csv raises (lines 165-167).
load_messages(file) ==
    IF ~file.exists THEN <<>>
    ELSE IF read_csv_raises(file) THEN <<>>
    ELSE load_messages_df(read_csv(file)).rows

\* Lines 173-180; mid is not a column: it names the send that made the row.
new_row(mid, email, message, recipient, now) ==
    [mid |-> mid, timestamp |-> now, email |-> email,
     user_id |-> generate_user_id(email), message |-> message,
     recipient |-> recipient]

\* Line 184: pd.concat([df, pd.DataFrame([new_row])]): the columns of both;
\* the rows of a frame without recipient column get NaN there.
concat(df, row) ==
    [has_recipient |-> TRUE,
     rows |-> Append(IF df.has_recipient THEN df.rows
                     ELSE [i \in 1..Len(df.rows) |->
                             [df.rows[i] EXCEPT !.recipient = NaN]],
                     row)]

\* Lines 182-186: the frame save_message writes.
save_message_df(file, row) ==
    IF file.exists THEN concat(read_csv(file), row)
    ELSE [has_recipient |-> TRUE, rows |-> <<row>>]

\* Lines 130-142: delete_message run without interference: the file it
\* leaves and what it returns.
delete_message(file, message_index) ==
    IF ~read_csv_raises(file) /\ delete_message_ok(file, message_index)
    THEN [file |-> to_csv(file.has_recipient, drop(file.rows, message_index)),
          ret |-> TRUE]
    ELSE [file |-> file, ret |-> FALSE]

\* Lines 170-192: save_message run without interference: the file it leaves
\* and what it returns.
save_message(file, row) ==
    IF read_csv_raises(file) THEN [file |-> file, ret |-> FALSE]
    ELSE [file |-> to_csv(TRUE, save_message_df(file, row).rows), ret |-> TRUE]

\* ------------------------------------------------ what the caller receives
\* The outcome of a call: the value returned, or an exception that reaches
\* the caller (st.error shows a text on the page and returns nothing).
returns(value) == [raised |-> FALSE, value |-> value]
raises == [raised |-> TRUE, value |-> <<>>]

\* Lines 155-168: every exception is caught at line 165.
load_messages_call(file) == returns(load_messages(file))

\* Lines 106-128: every exception is caught at line 126.
get_user_groups_call(file, user_email) == returns(get_user_groups(file, user_email))

\* Lines 148-153: there is no try around pd.read_csv.
get_registered_users_call(file) ==
    IF read_csv_raises(file) THEN raises
    ELSE returns(get_registered_users(file))

\* ------------------------------------------------- get_filtered_messages
\* should_show with a test of line 212 that takes every message sent to an
\* email for a message to the viewer.
should_show_any_direct(msg, user_email, user_group_ids) ==
    \/ msg.recipient \in {NoColumn, EVERYONE}
    \/ msg.recipient \in Emails
    \/ msg.email = user_email
    \/ InList(msg.recipient, user_group_ids)

\* should_show without the test of line 211.
should_show_no_broadcast(msg, user_email, user_group_ids) ==
    \/ msg.recipient = user_email
    \/ msg.email = user_email
    \/ InList(msg.recipient, user_group_ids)

\* should_show without the test of line 213.
should_show_no_sender(msg, user_email, user_group_ids) ==
    \/ msg.recipient \in {NoColumn, EVERYONE}
    \/ msg.recipient = user_email
    \/ InList(msg.recipient, user_group_ids)

\* should_show without the test of line 214.
should_show_no_group(msg, user_email, user_group_ids) ==
    \/ msg.recipient \in {NoColumn, EVERYONE}
    \/ msg.recipient = user_email
    \/ msg.email = user_email

\* Lines 202-215; msg.get('recipient', 'everyone').
should_show(msg, user_email, user_group_ids) ==
    LET recipient == IF msg.recipient = NoColumn THEN EVERYONE ELSE msg.recipient
        sender_email == msg.email
    IN  \/ recipient = EVERYONE
        \/ recipient = user_email
        \/ sender_email = user_email
        \/ InList(recipient, user_group_ids)

\* with_index for a loop that counts from one, enumerate(messages, 1).
with_index_from_one(msg, i) ==
    [mid |-> msg.mid, timestamp |-> msg.timestamp, email |-> msg.email,
     user_id |-> msg.user_id, message |-> msg.message,
     recipient |-> msg.recipient, message_index |-> i + 1]

\* Line 218: msg['message_index'] = i.
with_index(msg, i) ==
    [mid |-> msg.mid, timestamp |-> msg.timestamp, email |-> msg.email,
     user_id |-> msg.user_id, message |-> msg.message,
     recipient |-> msg.recipient, message_index |-> i]

RECURSIVE filter_from(_, _, _, _)
\* Lines 201-219: the loop over enumerate(messages), from i on (i from 0).
filter_from(messages, i, user_email, user_group_ids) ==
    IF i >= Len(messages) THEN <<>>
    ELSE LET msg == messages[i + 1]
             rest == filter_from(messages, i + 1, user_email, user_group_ids)
         IN  IF should_show(msg, user_email, user_group_ids)
             THEN <<with_index(msg, i)>> \o rest
             ELSE rest

\* Lines 196-221, given what load_messages and get_user_groups returned.
filtered_messages(messages, user_groups, user_email) ==
    LET user_group_ids == [j \in 1..Len(user_groups) |-> user_groups[j].group_id]
    IN  filter_from(messages, 0, user_email, user_group_ids)

\* get_filtered_messages run without interference on these files.
get_filtered_messages(chat_file, groups_file, user_email) ==
    filtered_messages(load_messages(chat_file),
                      get_user_groups(groups_file, user_email), user_email)

\* ------------------------------------------------------- what a page holds
\* Lines 288-291: one delete button per message of the view that the viewer
\* sent, with key delete_{message_index}; mid is the message the button is
\* drawn next to.
delete_buttons(view, user_email) ==
    {[key |-> view[j].message_index, mid |-> view[j].mid] :
        j \in {j \in 1..Len(view) : view[j].email = user_email}}

\* Lines 455-471: recipient_values.
recipient_values(registered_users, user_groups, user_email) ==
    LET other_users == SelectSeq(registered_users,
                                 LAMBDA user : user.email # user_email)
    IN  <<EVERYONE>>
        \o [j \in 1..Len(other_users) |-> other_users[j].email]
        \o [j \in 1..Len(user_groups) |-> user_groups[j].group_id]

\* Lines 473-483: the selectbox keeps the index the user chose as long as
\* its options (range(len(recipient_options))) are the same; with other
\* options it is a new widget showing index=0.
selected_recipient(values, nopts, sel) ==
    IF Len(values) > 1
    THEN values[(IF Len(values) = nopts THEN sel ELSE 0) + 1]
    ELSE EVERYONE

\* message.strip(), group_name.strip()
strip(str) == IF str \in {"", " "} THEN "" ELSE str

\* ---------------------------------------------------------------- state
VARIABLES
    users,   \* registered_users.csv
    groups,  \* groups.csv
    chat,    \* chat_log.csv
    clock,   \* datetime.now(), in seconds
    nsent,   \* the number of save_message calls so far (names the rows)
    sess     \* per browser session: st.session_state, the page it shows and
             \* the position of its script run

vars == <<users, groups, chat, clock, nsent, sess>>

\* No widget was used: a plain run of the script.
NoEvent == [kind |-> "none", key |-> -1, target |-> 0, sel |-> 0,
            text |-> "", recipient |-> "", members |-> <<>>]

NoFrame == [has_recipient |-> TRUE, rows |-> <<>>]

\* Lines 15-26: the session state of a new session, which shows the login page.
LoggedOut ==
    [pc |-> "out", user_email |-> "", buttons |-> {}, nopts |-> 1,
     ev |-> NoEvent, df |-> NoFrame, ret |-> "", error |-> ""]

\* The page a finished script run of a logged-in session shows: the delete
\* buttons of display_messages and the number of options of the selectbox.
Page(users_file, groups_file, chat_file, user_email) ==
    LET user_groups == get_user_groups(groups_file, user_email)
        view == get_filtered_messages(chat_file, groups_file, user_email)
        values == recipient_values(get_registered_users(users_file),
                                   user_groups, user_email)
    IN  [buttons |-> delete_buttons(view, user_email), nopts |-> Len(values)]

Idle(user_email, page) ==
    [pc |-> "idle", user_email |-> user_email, buttons |-> page.buttons,
     nopts |-> page.nopts, ev |-> NoEvent, df |-> NoFrame, ret |-> "",
     error |-> ""]

\* A chat log written before the recipient column existed: n rows.
LegacyLog(n) ==
    [exists |-> TRUE, readable |-> TRUE, has_recipient |-> FALSE,
     rows |-> [i \in 1..n |->
                 [mid |-> 0 - i, timestamp |-> 0, email |-> LegacyUser,
                  user_id |-> generate_user_id(LegacyUser), message |-> "hi",
                  recipient |-> NoColumn]]]

\* Either a first start (no file yet) or a start on the files of the older
\* version, whose chat log has no recipient column and up to max_legacy rows.
Start(max_legacy) ==
    /\ \/ /\ users = NoFile
          /\ chat = NoFile
       \/ /\ users = to_csv(TRUE, register_user_new(
                              register_user_new(<<>>, LegacyUser, 0),
                              OtherLegacyUser, 0))
          /\ \E n \in 1..max_legacy : chat = LegacyLog(n)
    /\ groups = NoFile
    /\ clock = 0
    /\ nsent = 0
    /\ sess = [s \in Sessions |-> LoggedOut]

\* The legacy chat log of Spec has one row.
Init == Start(1)

InitReg == Start(MaxLegacy)

\* ------------------------------------------- handlers run without interference
\* Lines 389-404: Join Chat with a valid email, and the run st.rerun() starts.
Login(s, email) ==
    /\ sess[s].pc = "out"
    /\ LET r == register_user(users, email, clock)
           chat1 == Migrate(chat)
       IN  /\ users' = r.file
           /\ chat' = chat1
           /\ sess' = [sess EXCEPT ![s] = Idle(email, Page(r.file, groups, chat1, email))]
    /\ UNCHANGED <<groups, clock, nsent>>

\* Lines 423-430.
Logout(s) ==
    /\ sess[s].pc = "idle"
    /\ sess' = [sess EXCEPT ![s] = LoggedOut]
    /\ UNCHANGED <<users, groups, chat, clock, nsent>>

\* Lines 444-449: Refresh Chat, or any run of the script that uses no widget.
Refresh(s) ==
    /\ sess[s].pc = "idle"
    /\ LET email == sess[s].user_email
           chat1 == Migrate(chat)
       IN  /\ chat' = chat1
           /\ sess' = [sess EXCEPT ![s] = Idle(email, Page(users, groups, chat1, email))]
    /\ UNCHANGED <<users, groups, clock, nsent>>

\* Lines 225, 288-296: the delete button b of the page is clicked.  The run
\* the click starts loads the messages again; the click reaches the button
\* that has the same key in this run, if there is one.
Delete(s, b) ==
    /\ sess[s].pc = "idle"
    /\ b \in sess[s].buttons
    /\ LET email == sess[s].user_email
           chat1 == Migrate(chat)
           view == get_filtered_messages(chat1, groups, email)
           clicked == \E j \in 1..Len(view) :
                         view[j].message_index = b.key /\ view[j].email = email
           chat2 == IF clicked /\ delete_message_ok(chat1, b.key)
                    THEN to_csv(chat1.has_recipient, drop(chat1.rows, b.key))
                    ELSE chat1
       IN  /\ chat' = chat2
           /\ sess' = [sess EXCEPT ![s] = Idle(email, Page(users, groups, chat2, email))]
    /\ UNCHANGED <<users, groups, clock, nsent>>

\* Lines 455-516: Send Message with the option sel of the selectbox chosen.
Send(s, text, sel) ==
    /\ sess[s].pc = "idle"
    /\ sel \in 0..(sess[s].nopts - 1)
    /\ strip(text) # ""
    /\ LET email == sess[s].user_email
           chat1 == Migrate(chat)
           values == recipient_values(get_registered_users(users),
                                      get_user_groups(groups, email), email)
           recipient == selected_recipient(values, sess[s].nopts, sel)
           row == new_row(nsent + 1, email, strip(text), recipient, clock)
           chat2 == to_csv(TRUE, save_message_df(chat1, row).rows)
       IN  /\ chat' = chat2
           /\ sess' = [sess EXCEPT ![s] = Idle(email, Page(users, groups, chat2, email))]
    /\ nsent' = nsent + 1
    /\ UNCHANGED <<users, groups, clock>>

\* Lines 346-356: the members whose checkbox (key member_{email}) is checked,
\* in the order of the users file.
selected_members(registered_users, user_email, checked) ==
    LET other_users == SelectSeq(registered_users,
                                 LAMBDA user : user.email # user_email)
        emails == [j \in 1..Len(other_users) |-> other_users[j].email]
    IN  SelectSeq(emails, LAMBDA e : e \in checked)

\* Lines 360-367: Create Group with a name and at least one member checked.
CreateGroup(s, group_name, checked) ==
    /\ sess[s].pc = "idle"
    /\ strip(group_name) # ""
    /\ LET email == sess[s].user_email
           members == selected_members(get_registered_users(users), email, checked)
           groups1 == create_group(groups, strip(group_name), email, members, clock)
           chat1 == Migrate(chat)
       IN  /\ members # <<>>
           /\ groups' = groups1
           /\ chat' = chat1
           /\ sess' = [sess EXCEPT ![s] = Idle(email, Page(users, groups1, chat1, email))]
    /\ UNCHANGED <<users, clock, nsent>>

\* A second passes.
Tick ==
    /\ clock < MaxClock
    /\ clock' = clock + 1
    /\ UNCHANGED <<users, groups, chat, nsent, sess>>

\* The widgets a page can show: the options of the selectbox (everyone, the
\* other users, the groups of the viewer) and the checkboxes of the form.
Options == 0..(Cardinality(Emails) + Cardinality(GroupNames))

\* ------------------------------------------------ handlers with their checks
\* What each person types into the email field: their own email, or one of
\* these texts, which are empty or no email address.
Typed == [s \in Sessions |-> IF s = "s1" THEN <<"a", "@", "x", ".", "i", "o">>
                                         ELSE <<"b", "@", "x", ".", "i", "o">>]
Malformed ==
    {<<>>,
     <<"a">>,
     <<"a", "@", "x">>,
     <<"a", "@", "x", ".", "i">>,
     <<"a", "@", "x", ".", "i", "0">>,
     <<"@", "x", ".", "i", "o">>,
     <<"a", "@", ".", "i", "o">>,
     <<"a", " ", "@", "x", ".", "i", "o">>}

\* Texts that strip() leaves empty.
Blank == {"", " "}

\* Lines 389-408: Join Chat with whatever the email field holds.
JoinChat(s, email) ==
    IF email # <<>> /\ is_valid_email(email)
    THEN Login(s, as_string(email))
    ELSE /\ sess[s].pc = "out"
         /\ sess' = [sess EXCEPT ![s].error = "Please enter a valid email address."]
         /\ UNCHANGED <<users, groups, chat, clock, nsent>>

\* A run of the script of a logged-in session that ends with st.error(error).
Rejected(s, error) ==
    /\ sess[s].pc = "idle"
    /\ LET email == sess[s].user_email
           chat1 == Migrate(chat)
       IN  /\ chat' = chat1
           /\ sess' = [sess EXCEPT ![s] =
                         [Idle(email, Page(users, groups, chat1, email))
                             EXCEPT !.error = error]]
    /\ UNCHANGED <<users, groups, clock, nsent>>

\* Lines 485-520: Send Message with whatever the text area holds.
SendMessage(s, message, sel) ==
    IF strip(message) # ""
    THEN Send(s, message, sel)
    ELSE /\ sel \in 0..(sess[s].nopts - 1)
         /\ Rejected(s, "Please enter a message.")

\* Lines 346-375: Create Group submitted with whatever the form holds; the
\* form has its button only when there are other users.
SubmitCreateGroup(s, group_name, checked) ==
    LET registered_users == get_registered_users(users)
        email == sess[s].user_email
    IN  /\ selected_members(registered_users, email, Emails) # <<>>
        /\ IF strip(group_name) = ""
           THEN Rejected(s, "Please enter a group name")
           ELSE IF selected_members(registered_users, email, checked) = <<>>
           THEN Rejected(s, "Please select at least one member")
           ELSE CreateGroup(s, group_name, checked)

NextValid ==
    \/ \E s \in Sessions : \E email \in {Typed[s]} \cup Malformed : JoinChat(s, email)
    \/ \E s \in Sessions : Refresh(s)
    \/ \E s \in Sessions, message \in Texts \cup Blank, sel \in Options :
          /\ strip(message) # "" => nsent + Len(groups.rows) < MaxValid
          /\ SendMessage(s, message, sel)
    \/ \E s \in Sessions, group_name \in GroupNames \cup Blank :
          \E checked \in SUBSET (Emails \ {sess[s].user_email}) :
             /\ (strip(group_name) # "" /\ checked # {}) =>
                   nsent + Len(groups.rows) < MaxValid
             /\ SubmitCreateGroup(s, group_name, checked)

\* The handlers, each with the inputs it accepts and those it rejects.
SpecValid == Init /\ [][NextValid]_vars

\* The handlers, with at most max_msgs messages sent and max_groups groups
\* in the groups file.
Handlers(max_msgs, max_groups) ==
    \/ \E s \in Sessions : Login(s, Who[s])
    \/ \E s \in Sessions : Refresh(s)
    \/ \E s \in Sessions : \E b \in sess[s].buttons : Delete(s, b)
    \/ /\ nsent < max_msgs
       /\ \E s \in Sessions, text \in Texts, sel \in Options : Send(s, text, sel)
    \/ /\ Len(groups.rows) < max_groups
       /\ \E s \in Sessions, group_name \in GroupNames :
             \E checked \in SUBSET (Emails \ {sess[s].user_email}) :
                CreateGroup(s, group_name, checked)

Next == Handlers(MaxMsgs, MaxGroups)

\* Every handler runs from its first line to its last without another
\* session running in between.
Spec == Init /\ [][Next]_vars

\* The same handlers with more groups, while time passes.
NextWide ==
    \/ Handlers(MaxMsgs, WideGroups)
    \/ Tick

SpecWide == Init /\ [][NextWide]_vars

\* Sessions that log in and out, each with any email (the same person may
\* have two browsers open), while time passes.
NextReg ==
    \/ \E s \in Sessions, email \in Emails : Login(s, email)
    \/ \E s \in Sessions : Logout(s)
    \/ \E s \in Sessions : Refresh(s)
    \/ Tick

SpecReg == InitReg /\ [][NextReg]_vars

\* ------------------------------------------------ the steps of the handlers
\* Each handler as the steps other sessions can run between: one step per
\* read of a file that a step of this specification writes, and one per
\* write.  The session records where its run is (pc), which widget started
\* the run (ev), the frame it read (df) and where load_messages returns to
\* (ret).  No step of this specification writes the groups file, which is
\* read in the step that uses it.

\* The session after load_messages returned these messages: line 397, 445 or
\* 500 is followed by st.rerun(), which starts a run; line 196 is followed by
\* the rest of get_filtered_messages and display_messages, where the click
\* on a delete button reaches the button of this run that has its key.
Returned(rec, messages) ==
    IF rec.ret = "rerun"
    THEN [rec EXCEPT !.pc = "load", !.ret = "gfm", !.ev = NoEvent, !.df = NoFrame]
    ELSE LET view == filtered_messages(messages,
                        get_user_groups(groups, rec.user_email), rec.user_email)
             buttons == delete_buttons(view, rec.user_email)
             clicked == /\ rec.ev.kind = "delete"
                        /\ \E b \in buttons : b.key = rec.ev.key
         IN  [rec EXCEPT !.buttons = buttons,
                         !.df = NoFrame,
                         !.pc = IF clicked THEN "del_read" ELSE "opts",
                         !.ev = IF rec.ev.kind = "delete" /\ ~clicked
                                THEN NoEvent ELSE @]

\* Lines 157-164: the read of load_messages.
LoadRead(rec) ==
    LET df == load_messages_df(read_csv(chat))
    IN  IF ~chat.exists THEN Returned(rec, <<>>)
        ELSE IF load_messages_migrates(chat)
        THEN [rec EXCEPT !.pc = "mig_write", !.df = df]
        ELSE Returned(rec, df.rows)

\* Lines 389-391, 50-59: Join Chat, up to the read of register_user.
c_Login(s, email) ==
    /\ sess[s].pc = "out"
    /\ sess' = [sess EXCEPT ![s] =
                  IF register_user_exists(users, email)
                  THEN [@ EXCEPT !.user_email = email, !.pc = "load", !.ret = "rerun"]
                  ELSE [@ EXCEPT !.user_email = email, !.pc = "reg_write",
                                 !.df = [has_recipient |-> TRUE,
                                         rows |-> register_user_df(users)]]]
    /\ UNCHANGED <<users, groups, chat, clock, nsent>>

\* Lines 62-70, 392-397: the write of register_user.
c_RegisterWrite(s) ==
    /\ sess[s].pc = "reg_write"
    /\ users' = to_csv(TRUE, register_user_new(sess[s].df.rows,
                                              sess[s].user_email, clock))
    /\ sess' = [sess EXCEPT ![s] = [@ EXCEPT !.pc = "load", !.ret = "rerun",
                                             !.df = NoFrame]]
    /\ UNCHANGED <<groups, chat, clock, nsent>>

\* Lines 157-164: load_messages, called at line 196, 397, 445 or 500.
c_LoadMessages(s) ==
    /\ sess[s].pc = "load"
    /\ sess' = [sess EXCEPT ![s] = LoadRead(@)]
    /\ UNCHANGED <<users, groups, chat, clock, nsent>>

\* Line 163: the write of load_messages.
c_MigrateWrite(s) ==
    /\ sess[s].pc = "mig_write"
    /\ chat' = to_csv(TRUE, sess[s].df.rows)
    /\ sess' = [sess EXCEPT ![s] = Returned(@, sess[s].df.rows)]
    /\ UNCHANGED <<users, groups, clock, nsent>>

\* Lines 444-446: Refresh Chat, up to the read of load_messages.
c_Refresh(s) ==
    /\ sess[s].pc = "idle"
    /\ sess' = [sess EXCEPT ![s] = LoadRead([@ EXCEPT !.ret = "rerun"])]
    /\ UNCHANGED <<users, groups, chat, clock, nsent>>

\* A click on the delete button b of the page: the run it starts, up to the
\* read of load_messages (lines 225, 196).  target is the message the
\* button was drawn next to.
c_ClickDelete(s, b) ==
    /\ sess[s].pc = "idle"
    /\ b \in sess[s].buttons
    /\ sess' = [sess EXCEPT ![s] =
                  LoadRead([@ EXCEPT !.ret = "gfm",
                                     !.ev = [NoEvent EXCEPT !.kind = "delete",
                                                            !.key = b.key,
                                                            !.target = b.mid]])]
    /\ UNCHANGED <<users, groups, chat, clock, nsent>>

\* Send Message with option sel chosen: the run it starts, up to the read of
\* load_messages (lines 225, 196).
c_ClickSend(s, text, sel) ==
    /\ sess[s].pc = "idle"
    /\ sel \in 0..(sess[s].nopts - 1)
    /\ strip(text) # ""
    /\ sess' = [sess EXCEPT ![s] =
                  LoadRead([@ EXCEPT !.ret = "gfm",
                                     !.ev = [NoEvent EXCEPT !.kind = "send",
                                                            !.sel = sel,
                                                            !.text = text]])]
    /\ UNCHANGED <<users, groups, chat, clock, nsent>>

\* Lines 292, 133-135, 139: the read of delete_message.
c_DeleteRead(s) ==
    /\ sess[s].pc = "del_read"
    /\ sess' = [sess EXCEPT ![s] =
                  IF delete_message_ok(chat, sess[s].ev.key)
                  THEN [@ EXCEPT !.pc = "del_write", !.df = read_csv(chat)]
                  ELSE [@ EXCEPT !.pc = "opts", !.ev = NoEvent]]
    /\ UNCHANGED <<users, groups, chat, clock, nsent>>

\* Lines 136-138, 292-294: the write of delete_message, and st.rerun().
c_DeleteWrite(s) ==
    /\ sess[s].pc = "del_write"
    /\ chat' = to_csv(sess[s].df.has_recipient,
                      drop(sess[s].df.rows, sess[s].ev.key))
    /\ sess' = [sess EXCEPT ![s] = [@ EXCEPT !.pc = "load", !.ret = "gfm",
                                             !.ev = NoEvent, !.df = NoFrame]]
    /\ UNCHANGED <<users, groups, clock, nsent>>

\* Lines 455-491: the read of get_registered_users and the recipient the
\* selectbox gives; without Send Message the run ends and shows its page.
c_Options(s) ==
    /\ sess[s].pc = "opts"
    /\ LET email == sess[s].user_email
           values == recipient_values(get_registered_users(users),
                                      get_user_groups(groups, email), email)
       IN  sess' = [sess EXCEPT ![s] =
                      IF sess[s].ev.kind = "send"
                      THEN [@ EXCEPT !.pc = "save_read",
                                     !.ev.recipient =
                                        selected_recipient(values, sess[s].nopts,
                                                           sess[s].ev.sel)]
                      ELSE [@ EXCEPT !.pc = "idle", !.nopts = Len(values)]]
    /\ UNCHANGED <<users, groups, chat, clock, nsent>>

\* Lines 173-186: the read of save_message.
c_SaveRead(s) ==
    /\ sess[s].pc = "save_read"
    /\ nsent' = nsent + 1
    /\ LET row == new_row(nsent + 1, sess[s].user_email, strip(sess[s].ev.text),
                          sess[s].ev.recipient, clock)
       IN  sess' = [sess EXCEPT ![s] = [@ EXCEPT !.pc = "save_write",
                                                 !.df = save_message_df(chat, row)]]
    /\ UNCHANGED <<users, groups, chat, clock>>

\* Lines 188-189, 499-500: the write of save_message, which returns True.
c_SaveWrite(s) ==
    /\ sess[s].pc = "save_write"
    /\ chat' = to_csv(TRUE, sess[s].df.rows)
    /\ sess' = [sess EXCEPT ![s] = [@ EXCEPT !.pc = "load", !.ret = "rerun",
                                             !.ev = NoEvent, !.df = NoFrame]]
    /\ UNCHANGED <<users, groups, clock, nsent>>

\* The messages sent and those of the runs that Send Message started.
Sending == nsent + Cardinality({s \in Sessions : sess[s].ev.kind = "send"})

NextConc ==
    \/ \E s \in Sessions : c_Login(s, Who[s])
    \/ \E s \in Sessions : c_RegisterWrite(s)
    \/ \E s \in Sessions : c_LoadMessages(s)
    \/ \E s \in Sessions : c_MigrateWrite(s)
    \/ \E s \in Sessions : c_Refresh(s)
    \/ \E s \in Sessions : \E b \in sess[s].buttons : c_ClickDelete(s, b)
    \/ /\ Sending < WideMsgs
       /\ \E s \in Sessions, text \in Texts, sel \in Options : c_ClickSend(s, text, sel)
    \/ \E s \in Sessions : c_DeleteRead(s)
    \/ \E s \in Sessions : c_DeleteWrite(s)
    \/ \E s \in Sessions : c_Options(s)
    \/ \E s \in Sessions : c_SaveRead(s)
    \/ \E s \in Sessions : c_SaveWrite(s)

\* The sessions run their handlers at the same time: between two file
\* accesses of one session the other sessions take any number of steps.
SpecConc == Init /\ [][NextConc]_vars

\* Lines 346-362: Create Group is submitted with a name and checked members:
\* the run it starts, up to the read of get_registered_users.
c_ClickCreate(s, group_name, checked) ==
    /\ sess[s].pc = "idle"
    /\ strip(group_name) # ""
    /\ LET members == selected_members(get_registered_users(users),
                                       sess[s].user_email, checked)
       IN  /\ members # <<>>
           /\ sess' = [sess EXCEPT ![s] =
                         [@ EXCEPT !.pc = "grp_read", !.ret = "gfm",
                                   !.ev = [NoEvent EXCEPT !.kind = "create",
                                                          !.text = strip(group_name),
                                                          !.members = members]]]
    /\ UNCHANGED <<users, groups, chat, clock, nsent>>

\* Lines 78-98: the read of create_group, and the frame it builds.
c_GroupRead(s) ==
    /\ sess[s].pc = "grp_read"
    /\ sess' = [sess EXCEPT ![s] =
                  [@ EXCEPT !.pc = "grp_write",
                            !.df = [has_recipient |-> TRUE,
                                    rows |-> create_group_new(
                                                create_group_df(groups),
                                                sess[s].ev.text,
                                                sess[s].user_email,
                                                sess[s].ev.members, clock)]]]
    /\ UNCHANGED <<users, groups, chat, clock, nsent>>

\* Lines 99-101, 364-367: the write of create_group, which returns success,
\* and st.rerun().
c_GroupWrite(s) ==
    /\ sess[s].pc = "grp_write"
    /\ groups' = to_csv(TRUE, sess[s].df.rows)
    /\ sess' = [sess EXCEPT ![s] = [@ EXCEPT !.pc = "load", !.ret = "gfm",
                                             !.ev = NoEvent, !.df = NoFrame]]
    /\ UNCHANGED <<users, chat, clock, nsent>>

\* The groups of the groups file and those of the runs that Create Group
\* started.
Creating ==
    Len(groups.rows) + Cardinality({s \in Sessions : sess[s].ev.kind = "create"})

\* The sessions create groups at the same time.
NextConcGroups ==
    \/ \E s \in Sessions : c_Login(s, Who[s])
    \/ \E s \in Sessions : c_RegisterWrite(s)
    \/ \E s \in Sessions : c_LoadMessages(s)
    \/ \E s \in Sessions : c_MigrateWrite(s)
    \/ \E s \in Sessions : c_Options(s)
    \/ /\ Creating < WideGroups
       /\ \E s \in Sessions, group_name \in GroupNames :
             \E checked \in SUBSET (Emails \ {sess[s].user_email}) :
                c_ClickCreate(s, group_name, checked)
    \/ \E s \in Sessions : c_GroupRead(s)
    \/ \E s \in Sessions : c_GroupWrite(s)

SpecConcGroups == Init /\ [][NextConcGroups]_vars

\* The sessions create groups and send messages at the same time.
NextConcSend ==
    \/ NextConcGroups
    \/ /\ Sending < MaxMsgs
       /\ \E s \in Sessions, message \in Texts, sel \in Options :
             c_ClickSend(s, message, sel)
    \/ \E s \in Sessions : c_SaveRead(s)
    \/ \E s \in Sessions : c_SaveWrite(s)

SpecConcSend == Init /\ [][NextConcSend]_vars

\* Sessions that log in and out at the same time, each with any email,
\* while time passes: the steps of register_user and of the runs that follow.
NextConcReg ==
    \/ \E s \in Sessions, email \in Emails : c_Login(s, email)
    \/ \E s \in Sessions : c_RegisterWrite(s)
    \/ \E s \in Sessions : c_LoadMessages(s)
    \/ \E s \in Sessions : c_MigrateWrite(s)
    \/ \E s \in Sessions : c_Options(s)
    \/ \E s \in Sessions : Logout(s)
    \/ Tick

SpecConcReg == Init /\ [][NextConcReg]_vars

\* ------------------------------------------- the functions of the messages log
\* The functions of the messages log called one after the other, in any
\* order and by any caller, as the functions of a module can be.

\* save_message(email, user_id, message, recipient).
f_save_message(email, message, recipient) ==
    /\ nsent < WideMsgs
    /\ chat' = save_message(chat, new_row(nsent + 1, email, message,
                                         recipient, clock)).file
    /\ nsent' = nsent + 1
    /\ UNCHANGED <<users, groups, clock, sess>>

\* delete_message(message_index), for an index in and out of the bounds.
f_delete_message(message_index) ==
    /\ message_index \in (0 - 1)..Len(chat.rows)
    /\ chat' = delete_message(chat, message_index).file
    /\ UNCHANGED <<users, groups, clock, nsent, sess>>

\* load_messages().
f_load_messages ==
    /\ chat' = Migrate(chat)
    /\ UNCHANGED <<users, groups, clock, nsent, sess>>

\* One of the three files is left in a form that read_csv cannot parse.
Damage(f) ==
    /\ users' = IF f = "users" THEN Unreadable ELSE users
    /\ groups' = IF f = "groups" THEN Unreadable ELSE groups
    /\ chat' = IF f = "chat" THEN Unreadable ELSE chat
    /\ UNCHANGED <<clock, nsent, sess>>

NextStore ==
    \/ \E email \in Emails, message \in Texts, recipient \in {EVERYONE} \cup Emails :
          f_save_message(email, message, recipient)
    \/ \E message_index \in (0 - 1)..(MaxLegacy + WideMsgs) :
          f_delete_message(message_index)
    \/ f_load_messages
    \/ \E f \in {"users", "groups", "chat"} : Damage(f)

SpecStore == InitReg /\ [][NextStore]_vars

\* ------------------------------------------- the function of the groups log
\* The lists of members a caller passes: emails in any order, none twice,
\* with or without the creator.
MemberLists ==
    {members \in UNION {[1..n -> Emails] : n \in 0..Cardinality(Emails)} :
        \A i, j \in 1..Len(members) : members[i] = members[j] => i = j}

\* create_group(group_name, creator_email, members), called by any caller.
f_create_group(group_name, creator_email, members) ==
    /\ Len(groups.rows) < MaxGroups
    /\ groups' = create_group(groups, group_name, creator_email, members, clock)
    /\ UNCHANGED <<users, chat, clock, nsent, sess>>

NextGroupFn ==
    \E group_name \in GroupNames, creator_email \in Emails, members \in MemberLists :
        f_create_group(group_name, creator_email, members)

SpecGroupFn == Init /\ [][NextGroupFn]_vars

\* ------------------------------------------------------------ the claims
\* The emails of the users file.
Registered == {users.rows[i].email : i \in 1..Len(users.rows)}

\* The positions (from 0) of the messages that get_filtered_messages, run
\* on the files of this state, returns to viewer v.
Shown(v) ==
    LET view == get_filtered_messages(chat, groups, v)
    IN  {view[j].message_index : j \in 1..Len(view)}

\* The members of the group of row g of the groups file: the tokens of its
\* members cell that are no delimiter.
MembersOf(g) ==
    {groups.rows[g].members[k] : k \in 1..Len(groups.rows[g].members)} \ {Comma}

\* C4. Direct privacy: a stored message whose recipient is a user's email is
\* in the view of no viewer other than that user and its sender, whatever
\* groups the viewer belongs to.
C4_DirectPrivacy ==
    \A i \in 1..Len(chat.rows) : \A v \in Emails :
        ( /\ chat.rows[i].recipient \in Emails
          /\ v # chat.rows[i].recipient
          /\ v # chat.rows[i].email )
        => (i - 1) \notin Shown(v)

\* C4 witness: a direct message is stored while a third user, who belongs
\* to a group, looks at the log.
C4_Witness ==
    \E i \in 1..Len(chat.rows) : \E v \in Emails :
        /\ chat.rows[i].recipient \in Emails
        /\ v \notin {chat.rows[i].recipient, chat.rows[i].email}
        /\ get_user_groups(groups, v) # <<>>

\* C6. Broadcast visibility: every message of the log whose recipient is
\* 'everyone' is in the view of every registered viewer.
C6_BroadcastVisibility ==
    LET messages == load_messages(chat)
    IN  \A i \in 1..Len(messages) : \A v \in Registered :
            messages[i].recipient = EVERYONE => (i - 1) \in Shown(v)

\* C6 witness: a broadcast message sent by one user while another user, who
\* is neither its sender nor in any group, is registered.
C6_Witness ==
    \E i \in 1..Len(chat.rows) : \E v \in Registered :
        /\ chat.rows[i].mid > 0
        /\ chat.rows[i].recipient = EVERYONE
        /\ v # chat.rows[i].email
        /\ get_user_groups(groups, v) = <<>>

C8_FilterExact ==
    LET messages == load_messages(chat)
        Visible(i, v) ==
            \/ messages[i].recipient = EVERYONE
            \/ messages[i].recipient = v
            \/ messages[i].email = v
            \/ \E g \in 1..Len(groups.rows) :
                  /\ groups.rows[g].group_id = messages[i].recipient
                  /\ v \in MembersOf(g)
    IN  \A v \in Emails :
            LET view == get_filtered_messages(chat, groups, v)
            IN  /\ \A j \in 1..Len(view) :
                      /\ view[j].message_index + 1 \in 1..Len(messages)
                      /\ LET m == messages[view[j].message_index + 1]
                         IN  /\ view[j].mid = m.mid
                             /\ view[j].timestamp = m.timestamp
                             /\ view[j].email = m.email
                             /\ view[j].user_id = m.user_id
                             /\ view[j].message = m.message
                             /\ view[j].recipient = m.recipient
                /\ \A j, k \in 1..Len(view) :
                      j < k => view[j].message_index < view[k].message_index
                /\ {view[j].message_index + 1 : j \in 1..Len(view)}
                      = {i \in 1..Len(messages) : Visible(i, v)}

\* C8 witness: a viewer who is shown some of the messages of a log of
\* several messages, and not all of them.
C8_Witness ==
    \E v \in Emails :
        /\ Shown(v) # {}
        /\ Shown(v) # {i - 1 : i \in 1..Len(chat.rows)}

\* C9. Idempotent registration: of two successive register_user(e) calls
\* for an email not yet registered, the first returns is_new = True, the
\* second is_new = False and the same user_id without writing, and the users
\* file then holds exactly one row for e.
C9_IdempotentRegistration ==
    \A e \in Emails : \A later \in clock..MaxClock :
        ~register_user_exists(users, e) =>
            LET first == register_user(users, e, clock)
                second == register_user(first.file, e, later)
            IN  /\ first.is_new
                /\ ~second.is_new
                /\ second.user_id = first.user_id
                /\ ~second.wrote
                /\ second.file = first.file
                /\ Cardinality({i \in 1..Len(second.file.rows) :
                                   second.file.rows[i].email = e}) = 1

\* C9 witness: both sessions have logged in with the same email, which was
\* not registered at the start, and the users file holds one row for it.
C9_Witness ==
    /\ \A s \in Sessions : sess[s].user_email = "b@x.io"
    /\ Cardinality({i \in 1..Len(users.rows) : users.rows[i].email = "b@x.io"}) = 1

\* C10. Migration round trip: load_messages on a log without recipient
\* column returns every message with recipient 'everyone' and writes that
\* form; load_messages on the migrated log returns the same sequence and
\* writes nothing.
C10_MigrationRoundTrip ==
    /\ load_messages_migrates(chat) =>
          LET first == load_messages(chat)
              migrated == Migrate(chat)
          IN  /\ Len(first) = Len(chat.rows)
              /\ \A i \in 1..Len(first) :
                    first[i] = [chat.rows[i] EXCEPT !.recipient = EVERYONE]
              /\ migrated.exists /\ migrated.has_recipient
              /\ migrated.rows = first
              /\ load_messages(migrated) = first
              /\ Migrate(migrated) = migrated
    /\ (chat.exists /\ chat.has_recipient) =>
          /\ \E n \in 1..MaxLegacy :
                chat.rows = [i \in 1..n |->
                               [LegacyLog(n).rows[i] EXCEPT !.recipient = EVERYONE]]
          /\ ~load_messages_migrates(chat)
          /\ load_messages(chat) = chat.rows

\* C10 witness: a legacy log of two rows has been loaded, and so migrated.
C10_Witness ==
    /\ chat.exists /\ chat.has_recipient
    /\ Len(chat.rows) = 2
    /\ \A i \in 1..Len(chat.rows) : chat.rows[i].mid < 0

\* C5. Group visibility: a message whose recipient is the group_id of a
\* group is in the view of every member of that group and of its sender, and
\* of nobody else.
C5_GroupVisibility ==
    \A g \in 1..Len(groups.rows) : \A i \in 1..Len(chat.rows) : \A v \in Emails :
        chat.rows[i].recipient = groups.rows[g].group_id =>
            ((i - 1) \in Shown(v) <=> (v \in MembersOf(g) \/ v = chat.rows[i].email))

\* The mids of the rows of a chat file.
Mids(file) == {file.rows[i].mid : i \in 1..Len(file.rows)}

\* Session s writes the frame of its delete_message in this step.
DeleteWrites(s) == sess[s].pc = "del_write" /\ sess'[s].pc # "del_write"

\* C1. No message is lost: a message that save_message wrote stays in the
\* log in every step, except the step in which a delete_message aimed at
\* that message writes.
C1_NoMessageLost ==
    [][\A m \in Mids(chat) :
          (m > 0 /\ m \notin Mids(chat')) =>
              \E s \in Sessions : DeleteWrites(s) /\ sess[s].ev.target = m]_vars

\* C2. Deletion precision: the record delete_message drops from the frame
\* it read is the message next to the button the viewer clicked.
C2_DeletionPrecision ==
    \A s \in Sessions :
        sess[s].pc = "del_write" =>
            sess[s].df.rows[sess[s].ev.key + 1].mid = sess[s].ev.target

\* C3. Only the sender destroys: every message that the write of a
\* delete_message of viewer v takes out of the log was sent by v.
C3_OnlySenderDestroys ==
    [][\A s \in Sessions :
          DeleteWrites(s) =>
              \A i \in 1..Len(chat.rows) :
                  chat.rows[i].mid \notin Mids(chat')
                      => chat.rows[i].email = sess[s].user_email]_vars

\* C11. Backward compatibility: after any order of save_message,
\* delete_message and load_messages calls on a log that had no recipient
\* column, load_messages returns every remaining row of that log with
\* recipient 'everyone', and every viewer is shown it.
C11_BackwardCompatibility ==
    LET messages == load_messages(chat)
    IN  \A i \in 1..Len(messages) :
            messages[i].mid < 0 =>
                /\ messages[i].recipient = EVERYONE
                /\ \A v \in Emails : (i - 1) \in Shown(v)

\* C12. delete_message(position) with 0 <= position < length of the log
\* returns True and leaves the log without the record at that position, the
\* other records in their order; with any other position, or without a log
\* file, it returns False and leaves the log as it is.
C12_DeleteAtPosition ==
    \A position \in (0 - 1)..(Len(chat.rows) + 1) :
        LET r == delete_message(chat, position)
            n == Len(chat.rows)
        IN  IF chat.exists /\ 0 <= position /\ position < n
            THEN /\ r.ret
                 /\ r.file.exists
                 /\ Len(r.file.rows) = n - 1
                 /\ \A i \in 1..n :
                       \/ i = position + 1
                       \/ r.file.rows[IF i <= position THEN i ELSE i - 1]
                             = chat.rows[i]
            ELSE /\ ~r.ret
                 /\ r.file = chat

\* C12 witness: of three messages the middle one has been deleted, and the
\* one before it and the one after it are in the log.
C12_Witness ==
    /\ nsent = 2
    /\ 1 \notin Mids(chat)
    /\ {0 - 1, 2} \subseteq Mids(chat)

\* C13. save_message run without interference returns True and puts the
\* new message at the end of the log: load_messages then returns what it
\* returned before the call, unchanged, followed by the new message, whether
\* or not the log file existed.
C13_AppendAtEnd ==
    \A email \in Emails, message \in Texts, recipient \in {EVERYONE} \cup Emails :
        LET row == new_row(nsent + 1, email, message, recipient, clock)
            before == load_messages(chat)
            r == save_message(chat, row)
            after == load_messages(r.file)
        IN  r.ret =>
                /\ Len(after) = Len(before) + 1
                /\ after[Len(after)] = row
                /\ \A i \in 1..Len(before) : after[i] = before[i]

\* C14. A user record is never mutated or deleted: every row of the users
\* log is a row of the users log after every step, under any interleaving
\* of the register_user calls of the sessions.
C14_UserRecordPermanent ==
    [][\A i \in 1..Len(users.rows) :
          \E j \in 1..Len(users'.rows) : users'.rows[j] = users.rows[i]]_vars

\* The members of a row of the groups file, as a set.
MemberSet(group) ==
    {group.members[k] : k \in 1..Len(group.members)} \ {Comma}

\* C15. A group is immutable and permanent: every group of the groups log
\* is in the groups log after every step with the same group_id and the same
\* members, under any interleaving of the create_group calls of the sessions.
C15_GroupPermanent ==
    [][\A g \in 1..Len(groups.rows) :
          \E h \in 1..Len(groups'.rows) :
              /\ groups'.rows[h].group_id = groups.rows[g].group_id
              /\ MemberSet(groups'.rows[h]) = MemberSet(groups.rows[g])]_vars

\* C16. A storage failure is distinguishable from an empty store: on a log
\* that cannot be read, load_messages, get_user_groups and
\* get_registered_users give their caller an outcome other than the one they
\* give without a log file.
C16_StorageFailureDistinct ==
    /\ read_csv_raises(chat) =>
          load_messages_call(chat) # load_messages_call(NoFile)
    /\ read_csv_raises(groups) =>
          \A v \in Emails :
              get_user_groups_call(groups, v) # get_user_groups_call(NoFile, v)
    /\ read_csv_raises(users) =>
          get_registered_users_call(users) # get_registered_users_call(NoFile)

\* C17. Validation failures cause no state change: Join Chat with an empty
\* or malformed email leaves the users log as it is, Create Group with an
\* empty or blank name or with no member checked leaves the groups log as it
\* is, and Send Message with an empty or blank text leaves the messages log
\* as it is.
C17_ValidationNoChange ==
    [][/\ users' # users =>
             \A s \in Sessions : \A email \in Malformed : ~JoinChat(s, email)
       /\ groups' # groups =>
             \A s \in Sessions : \A group_name \in GroupNames \cup Blank :
                \A checked \in SUBSET (Emails \ {sess[s].user_email}) :
                   (group_name \in Blank \/ checked = {})
                   => ~SubmitCreateGroup(s, group_name, checked)
       /\ chat' # chat =>
             \A s \in Sessions : \A message \in Blank : \A sel \in Options :
                ~SendMessage(s, message, sel)]_vars

\* C17 witness: with users, a group and a message in the logs, one session
\* shows the error of a rejected login and the other the error of a
\* rejected message.
C17_Witness ==
    /\ Len(users.rows) > 0 /\ Len(groups.rows) > 0 /\ Len(chat.rows) > 0
    /\ \E s, t \in Sessions :
          /\ sess[s].error = "Please enter a valid email address."
          /\ sess[t].error = "Please enter a message."

Between(positions) == {s \in Sessions : sess[s].pc \in positions}

\* C19. Mutual exclusion per log: at most one session at a time is between
\* the read and the write of register_user on the users log, of create_group
\* on the groups log, and of save_message, delete_message or the migration
\* of load_messages on the messages log.
C19_MutualExclusion ==
    /\ Cardinality(Between({"reg_write"})) <= 1
    /\ Cardinality(Between({"grp_write"})) <= 1
    /\ Cardinality(Between({"save_write", "del_write", "mig_write"})) <= 1

\* C20. Email uniqueness: in every state reached by any interleaving of the
\* read steps and write steps of the register_user calls of the sessions,
\* the users log holds no two rows with the same email, and the user_id of
\* the row of an email is the one that a register_user call for that email
\* returns.
C20_EmailUnique ==
    /\ \A i, j \in 1..Len(users.rows) :
          users.rows[i].email = users.rows[j].email => i = j
    /\ \A i \in 1..Len(users.rows) : \A now \in 0..MaxClock :
          register_user(users, users.rows[i].email, now).user_id
              = users.rows[i].user_id
    /\ \A s \in Sessions :
          sess[s].pc = "reg_write" =>
              \A i, j \in 1..Len(sess[s].df.rows) :
                  sess[s].df.rows[i].email = sess[s].df.rows[j].email => i = j

\* C20 witness: two sessions register the same new email at the same time:
\* one has written its row and the other, which read the log before that,
\* is about to write.
C20_Witness ==
    \E s, t \in Sessions :
        /\ s # t
        /\ sess[s].user_email = sess[t].user_email
        /\ sess[s].pc = "reg_write"
        /\ sess[t].pc # "reg_write"
        /\ \E i \in 1..Len(users.rows) :
              /\ users.rows[i].email = sess[s].user_email
              /\ Len(users.rows) > 1

\* The group_ids of the groups file.
GroupIds == {groups.rows[g].group_id : g \in 1..Len(groups.rows)}

\* C21. Recipient resolution: when save_message is about to write a message
\* of the send flow, the recipient of the message is 'everyone', the email
\* of a user of the users log or the group_id of a group of the groups log,
\* whatever the other sessions did since the options of the sender were
\* built.
C21_RecipientResolves ==
    \A s \in Sessions :
        sess[s].pc = "save_write" =>
            sess[s].ev.recipient \in {EVERYONE} \cup Registered \cup GroupIds

\* C22. The message_index of every message that get_filtered_messages(v)
\* returns is the position of that message in the log load_messages
\* returned to the call, not its position in the view: delete_message of
\* that index on the log the call left removes that message and no other.
C22_IndexIsLogPosition ==
    \A v \in Emails :
        LET messages == load_messages(chat)
            log == Migrate(chat)
            view == get_filtered_messages(chat, groups, v)
        IN  \A j \in 1..Len(view) :
                LET message_index == view[j].message_index
                    r == delete_message(log, message_index)
                IN  /\ 0 <= message_index /\ message_index < Len(messages)
                    /\ messages[message_index + 1].mid = view[j].mid
                    /\ r.ret
                    /\ Mids(r.file) = Mids(log) \ {view[j].mid}
                    /\ Len(r.file.rows) = Len(log.rows) - 1

\* C22 witness: a viewer whose view starts after a message of the log that
\* the viewer is not shown.
C22_Witness ==
    \E v \in Emails :
        LET view == get_filtered_messages(chat, groups, v)
        IN  /\ Len(view) > 0
            /\ view[1].message_index > 0

====
